---- MODULE Spec2Model ----
(***************************************************************************)
(* A model of src/main.rs: an in-memory store of named document            *)
(* collections (Database, guarded by one Mutex), the Collection operations *)
(* add_document / remove_document / get_similar_documents, and the         *)
(* cosine_similarity function.                                             *)
(*                                                                         *)
(* Floating point.  An f32 is modelled as one of: a finite value (an       *)
(* integer, arithmetic on which is exact because the components used stay  *)
(* far from the f32 range), +infinity, -infinity, or NaN, combined by the  *)
(* IEEE-754 rules for the special values.  A square root is kept symbolic: *)
(* a magnitude is the root of its sum of squares and a score is            *)
(* num / sqrt(den), compared exactly.  Rounding is not modelled.           *)
(*                                                                         *)
(* Ownership.  Every Collection value owns its `documents` HashMap.  The   *)
(* storage of the maps is the variable `store`, indexed by the place that  *)
(* owns the map (a registry slot or a caller's binding), so that a deep    *)
(* copy and an alias are different things in the model.                    *)
(***************************************************************************)
EXTENDS Integers, Sequences, FiniteSets

(* ------------------------------ bounds -------------------------------- *)
NumThreads == 2
MaxTopN == 4
MaxDim == 2
NumWorkers == 2

Threads == 1..NumThreads
Workers == 1..NumWorkers
TopNs == 0..MaxTopN

\* collection names and document ids: those of main, and one more name
Names == {"test", "other"}
Ids == {"doc1", "caroote", "doc3"}

Min(a, b) == IF a <= b THEN a ELSE b

(* ------------------------------- f32 ---------------------------------- *)
Fin(i) == [k |-> "fin", v |-> i]
PInf == [k |-> "inf", v |-> 1]
NInf == [k |-> "inf", v |-> -1]
NaN == [k |-> "nan", v |-> 0]

Sign(i) == IF i > 0 THEN 1 ELSE IF i < 0 THEN -1 ELSE 0

\* a * b on f32
FMul(a, b) ==
    IF a.k = "nan" \/ b.k = "nan" THEN NaN
    ELSE IF a.k = "inf" \/ b.k = "inf"
         THEN IF Sign(a.v) * Sign(b.v) = 0 THEN NaN
              ELSE [k |-> "inf", v |-> Sign(a.v) * Sign(b.v)]
         ELSE Fin(a.v * b.v)

\* a + b on f32
FAdd(a, b) ==
    IF a.k = "nan" \/ b.k = "nan" THEN NaN
    ELSE IF a.k = "inf" /\ b.k = "inf"
         THEN IF a.v = b.v THEN a ELSE NaN
         ELSE IF a.k = "inf" THEN a
         ELSE IF b.k = "inf" THEN b
         ELSE Fin(a.v + b.v)

\* Iterator::sum over a sequence of f32, left to right from 0.0
RECURSIVE FSum(_)
FSum(s) == IF s = <<>> THEN Fin(0)
           ELSE FAdd(FSum(SubSeq(s, 1, Len(s) - 1)), s[Len(s)])

\* f32::sqrt, kept symbolic: [k |-> "fin", r |-> x] stands for sqrt(x)
Sqrt(x) ==
    IF x.k = "nan" THEN [k |-> "nan", r |-> 0]
    ELSE IF x.k = "inf" THEN IF x.v > 0 THEN [k |-> "inf", r |-> 1]
                                        ELSE [k |-> "nan", r |-> 0]
    ELSE IF x.v < 0 THEN [k |-> "nan", r |-> 0]
    ELSE [k |-> "fin", r |-> x.v]

\* the guard left out: the division is always performed
GtZero_always(m) == TRUE

\* magnitude > 0.0 (false for NaN)
GtZero(m) == (m.k = "inf") \/ (m.k = "fin" /\ m.r > 0)

\* magnitude1 * magnitude2, both square roots
RMul(m1, m2) ==
    IF m1.k = "nan" \/ m2.k = "nan" THEN [k |-> "nan", r |-> 0]
    ELSE IF m1.k = "inf" \/ m2.k = "inf"
         THEN IF m1.r = 0 \/ m2.r = 0 THEN [k |-> "nan", r |-> 0]
              ELSE [k |-> "inf", r |-> 1]
         ELSE [k |-> "fin", r |-> m1.r * m2.r]

\* A score: [k |-> "fin", num, den] stands for num / sqrt(den), den > 0.
ScoreZero == [k |-> "fin", num |-> 0, den |-> 1]
ScoreNaN == [k |-> "nan", num |-> 0, den |-> 1]
ScoreInf(s) == [k |-> "inf", num |-> s, den |-> 1]

\* dot / m on f32, m a square root
FDiv(dot, m) ==
    IF dot.k = "nan" \/ m.k = "nan" THEN ScoreNaN
    ELSE IF dot.k = "inf"
         THEN IF m.k = "inf" THEN ScoreNaN ELSE ScoreInf(dot.v)
    ELSE IF m.k = "inf" THEN ScoreZero
    ELSE IF m.r = 0 THEN IF dot.v = 0 THEN ScoreNaN ELSE ScoreInf(Sign(dot.v))
    ELSE IF dot.v = 0 THEN ScoreZero
    ELSE [k |-> "fin", num |-> dot.v, den |-> m.r]

\* vec1.iter().zip(vec2).map(|(a, b)| a * b): the overlapping prefix
ZipMul(vec1, vec2) ==
    [i \in 1..Min(Len(vec1), Len(vec2)) |-> FMul(vec1[i], vec2[i])]

Squares(vec) == [i \in 1..Len(vec) |-> FMul(vec[i], vec[i])]

cosine_similarity(vec1, vec2) ==
    LET dot_product == FSum(ZipMul(vec1, vec2))
        magnitude1 == Sqrt(FSum(Squares(vec1)))
        magnitude2 == Sqrt(FSum(Squares(vec2)))
    IN  IF GtZero(magnitude1) /\ GtZero(magnitude2)
        THEN FDiv(dot_product, RMul(magnitude1, magnitude2))
        ELSE ScoreZero

\* x < y on scores that are not NaN
ScoreLt(x, y) ==
    IF x.k = "inf" THEN x.num < 0 /\ ~(y.k = "inf" /\ y.num < 0)
    ELSE IF y.k = "inf" THEN y.num > 0
    ELSE IF x.num < 0 /\ y.num >= 0 THEN TRUE
    ELSE IF x.num >= 0 /\ y.num < 0 THEN FALSE
    ELSE IF x.num >= 0 THEN x.num * x.num * y.den < y.num * y.num * x.den
    ELSE x.num * x.num * y.den > y.num * y.num * x.den

\* f32::partial_cmp: "None" when either side is NaN
partial_cmp(x, y) ==
    IF x.k = "nan" \/ y.k = "nan" THEN "None"
    ELSE IF ScoreLt(x, y) THEN "Less"
    ELSE IF ScoreLt(y, x) THEN "Greater"
    ELSE "Equal"

(* ----------------------------- HashMap -------------------------------- *)
EmptyMap == [i \in {} |-> 0]

\* HashMap::insert: the value under key k is replaced or added
MapInsert(m, k, v) == [i \in DOMAIN m \cup {k} |-> IF i = k THEN v ELSE m[i]]

\* HashMap::remove: nothing happens when k is not a key
MapRemove(m, k) == [i \in DOMAIN m \ {k} |-> m[i]]

\* the orders in which an iteration over the keys S can deliver them
Orders(S) ==
    {s \in [1..Cardinality(S) -> S] :
        \A i, j \in 1..Cardinality(S) : s[i] = s[j] => i = j}

(* ----------------------- Collection: the query ------------------------ *)
\* the closure with a and b exchanged: an ascending sort
compare_ascending(a, b) ==
    LET c == partial_cmp(a[2], b[2]) IN IF c = "None" THEN "Equal" ELSE c

\* the closure of sort_by: b.1.partial_cmp(&a.1).unwrap_or(Ordering::Equal)
compare(a, b) ==
    LET c == partial_cmp(b[2], a[2]) IN IF c = "None" THEN "Equal" ELSE c

\* one insertion of the stable sort: x moves left past every element it is
\* Less than under the closure
RECURSIVE insert_tail(_, _)
insert_tail(s, x) ==
    IF s = <<>> THEN <<x>>
    ELSE IF compare(x, s[Len(s)]) = "Less"
         THEN Append(insert_tail(SubSeq(s, 1, Len(s) - 1), x), s[Len(s)])
         ELSE Append(s, x)

\* slice::sort_by, the stable sort (an insertion sort on short slices)
RECURSIVE sort_by(_)
sort_by(s) ==
    IF s = <<>> THEN <<>>
    ELSE insert_tail(sort_by(SubSeq(s, 1, Len(s) - 1)), s[Len(s)])

\* a take that yields one element too many
take_one_more(s, n) == SubSeq(s, 1, Min(n + 1, Len(s)))

\* Iterator::take
take(s, n) == SubSeq(s, 1, Min(n, Len(s)))

\* par_iter().map(..).collect(): one (doc.id, similarity) per document, in the
\* order `order` in which the map's entries are delivered
similarities(documents, query_embedding, order) ==
    [i \in 1..Len(order) |->
        <<documents[order[i]].id,
          cosine_similarity(documents[order[i]].embedding, query_embedding)>>]

get_similar_documents(documents, query_embedding, top_n, order) ==
    LET sorted_similarities ==
            sort_by(similarities(documents, query_embedding, order))
    IN  take(sorted_similarities, top_n)

(* ------------------------------ state --------------------------------- *)
VARIABLES
    collections,  \* Database.collections: name -> Collection, under the Mutex
    store,        \* the documents maps, by the place that owns them
    lock,         \* the Mutex: 0 when free, else the thread that holds it
    pc,           \* per thread: "idle", "lock", "cs", "unlock", "panicked"
    op,           \* per thread: the Database operation in progress
    local,        \* per thread: the Option<Collection> it got last
    results,      \* per thread: the Vec returned by its last query, until used
    history,      \* per thread and id: what last happened to the id in the
                  \* thread's collection: "never", "added", "overwritten", "removed"
    seqReg,       \* the registry of the operations applied in lock order
    seqRet,       \* per thread: the result its operation has in lock order
    poisoned,     \* the Mutex's poison flag: a holder panicked
    par           \* per thread: the parallel scoring of its query, when the
                  \* query is followed worker by worker

vars == <<collections, store, lock, pc, op, local, results, history,
          seqReg, seqRet, poisoned, par>>

DbLoc(n) == <<"db", n>>
OwnLoc(t) == <<"own", t>>
Locs == {DbLoc(n) : n \in Names} \cup {OwnLoc(t) : t \in Threads}

None == [some |-> FALSE]
Some(x) == [some |-> TRUE, val |-> x]
NoOp == [kind |-> "none", name |-> ""]

\* the value of a Collection: its name and the contents of its documents
Deref(c) == [name |-> c.name, documents |-> store[c.documents]]
DerefNext(c) == [name |-> c.name, documents |-> store'[c.documents]]

\* the registry as a value: name -> Collection value
RegView == [n \in DOMAIN collections |-> Deref(collections[n])]
RegViewNext == [n \in DOMAIN collections' |-> DerefNext(collections'[n])]

\* the Collection value a thread holds, if any
Snapshot(t) == IF local[t].some THEN Some(Deref(local[t].val)) ELSE None
SnapshotNext(t) ==
    IF local'[t].some THEN Some(DerefNext(local'[t].val)) ELSE None

\* the documents of the collection a thread holds
Documents(t) == store[local[t].val.documents]

(* ---------------------- Collection: the mutators ---------------------- *)
\* Collection::default() in place of Collection::new(name): the name is lost
Collection_default(name) == [name |-> "", documents |-> EmptyMap]

\* Collection::new: the value, with an empty documents map
Collection_new(name) == [name |-> name, documents |-> EmptyMap]

\* entry(id).or_insert(..): an existing document is kept
add_document_keep(documents, id, embedding) ==
    IF id \in DOMAIN documents THEN documents
    ELSE MapInsert(documents, id, [id |-> id, embedding |-> embedding])

add_document(documents, id, embedding) ==
    MapInsert(documents, id, [id |-> id, embedding |-> embedding])

\* a remove that forgets to remove
remove_document_noop(documents, id) == documents

\* documents.clear() in place of documents.remove(id)
remove_document_clear(documents, id) == EmptyMap

remove_document(documents, id) == MapRemove(documents, id)

\* a shallow copy: the copy shares the documents map of the original
cloned_shallow(c, dest) ==
    [handle |-> c, contents |-> store[c.documents]]

\* #[derive(Clone)] on Collection and Document: a copy of the name and of
\* every document, placed in a map of its own at `dest`
cloned(c, dest) ==
    [handle |-> [name |-> c.name, documents |-> dest],
     contents |-> [i \in DOMAIN store[c.documents] |->
                      [id |-> store[c.documents][i].id,
                       embedding |-> store[c.documents][i].embedding]]]

\* collection.add_document(id, embedding) on the collection thread t holds
AddDocument(t, id, embedding) ==
    /\ pc[t] = "idle"
    /\ local[t].some
    /\ ~results[t].some
    /\ store' = [store EXCEPT ![local[t].val.documents] =
                    add_document(@, id, embedding)]
    /\ history' = [history EXCEPT ![t][id] =
                      IF id \in DOMAIN Documents(t) THEN "overwritten"
                      ELSE "added"]
    /\ UNCHANGED <<par, poisoned, collections, lock, pc, op, local, results,
                   seqReg, seqRet>>

\* collection.remove_document(id) on the collection thread t holds
RemoveDocument(t, id) ==
    /\ pc[t] = "idle"
    /\ local[t].some
    /\ ~results[t].some
    /\ store' = [store EXCEPT ![local[t].val.documents] =
                    remove_document(@, id)]
    /\ history' = [history EXCEPT ![t][id] = "removed"]
    /\ UNCHANGED <<par, poisoned, collections, lock, pc, op, local, results,
                   seqReg, seqRet>>

\* let results = collection.get_similar_documents(&query_embedding, top_n)
GetSimilar(t, query_embedding, top_n) ==
    /\ pc[t] = "idle"
    /\ local[t].some
    /\ ~results[t].some
    /\ \E order \in Orders(DOMAIN Documents(t)) :
           results' = [results EXCEPT ![t] =
                          Some([query |-> query_embedding, top_n |-> top_n,
                                out |-> get_similar_documents(
                                            Documents(t), query_embedding,
                                            top_n, order)])]
    /\ UNCHANGED <<par, poisoned, collections, store, lock, pc, op, local,
                   history, seqReg, seqRet>>

\* for (id, similarity) in results { println!(..) }: the Vec is consumed
ConsumeResults(t) ==
    /\ results[t].some
    /\ results' = [results EXCEPT ![t] = None]
    /\ UNCHANGED <<par, poisoned, collections, store, lock, pc, op, local,
                   history, seqReg, seqRet>>

(* --------------- the query, followed worker by worker ----------------- *)
\* the scoring of thread t's query is in progress
ParRunning(t) == par[t].some /\ par[t].val.running

\* one output shared by the workers: every worker writes the same place
write_shared(slots, i, v) == [slots EXCEPT ![1] = Some(v)]

\* a worker writes the output of item i, and of no other item
write_slot(slots, i, v) == [slots EXCEPT ![i] = Some(v)]

\* collect(): the outputs that were written, in the order of the items
RECURSIVE collect(_)
collect(slots) ==
    IF slots = <<>> THEN <<>>
    ELSE LET front == collect(SubSeq(slots, 1, Len(slots) - 1))
             last == slots[Len(slots)]
         IN  IF last.some THEN Append(front, last.val) ELSE front

\* self.documents.par_iter(): the entries of the map become the items of
\* the parallel iterator, in the order `order`; none is scored yet
ParStart(t, query_embedding, top_n) ==
    /\ pc[t] = "idle"
    /\ local[t].some
    /\ ~results[t].some
    /\ ~ParRunning(t)
    /\ \E order \in Orders(DOMAIN Documents(t)) :
           par' = [par EXCEPT ![t] =
                      Some([running |-> TRUE,
                            query |-> query_embedding, top_n |-> top_n,
                            order |-> order,
                            todo |-> 1..Len(order),
                            busy |-> [w \in Workers |-> 0],
                            slots |-> [i \in 1..Len(order) |-> None]])]
    /\ UNCHANGED <<collections, store, lock, pc, op, local, results,
                   history, seqReg, seqRet, poisoned>>

\* a worker that has nothing in hand takes an item nobody has taken
ParTake(t, w, i) ==
    /\ ParRunning(t)
    /\ par[t].val.busy[w] = 0
    /\ i \in par[t].val.todo
    /\ par' = [par EXCEPT ![t].val.todo = @ \ {i},
                          ![t].val.busy[w] = i]
    /\ UNCHANGED <<collections, store, lock, pc, op, local, results,
                   history, seqReg, seqRet, poisoned>>

\* the closure of map on the worker's item: it reads the document and the
\* query and gives (doc.id.clone(), similarity), the output of that item
ParEmit(t, w) ==
    /\ ParRunning(t)
    /\ par[t].val.busy[w] # 0
    /\ LET i == par[t].val.busy[w]
           doc == Documents(t)[par[t].val.order[i]]
           similarity == cosine_similarity(doc.embedding, par[t].val.query)
       IN  par' = [par EXCEPT ![t].val.slots =
                                  write_slot(@, i, <<doc.id, similarity>>),
                              ![t].val.busy[w] = 0]
    /\ UNCHANGED <<collections, store, lock, pc, op, local, results,
                   history, seqReg, seqRet, poisoned>>

\* every item is scored: collect() gives `similarities`, which is sorted
\* and cut to top_n; the call returns
ParFinish(t) ==
    /\ ParRunning(t)
    /\ par[t].val.todo = {}
    /\ \A w \in Workers : par[t].val.busy[w] = 0
    /\ LET similarities_ == collect(par[t].val.slots)
           sorted_similarities == sort_by(similarities_)
       IN  results' = [results EXCEPT ![t] =
                          Some([query |-> par[t].val.query,
                                top_n |-> par[t].val.top_n,
                                out |-> take(sorted_similarities,
                                             par[t].val.top_n)])]
    /\ par' = [par EXCEPT ![t].val.running = FALSE]
    /\ UNCHANGED <<collections, store, lock, pc, op, local, history,
                   seqReg, seqRet, poisoned>>

(* ------------------------------ Database ------------------------------ *)
\* the operations applied one after the other to a registry value
SeqApply(reg, o) ==
    IF o.kind = "create"
    THEN MapInsert(reg, o.name, [name |-> o.name, documents |-> EmptyMap])
    ELSE IF o.kind = "delete" THEN MapRemove(reg, o.name)
    ELSE reg

SeqReturn(reg, o) ==
    IF o.kind = "get"
    THEN Some(IF o.name \in DOMAIN reg THEN Some(reg[o.name]) ELSE None)
    ELSE None

\* a lock that never blocks
can_lock_always(l) == TRUE

\* Mutex::lock returns only when no thread holds the lock
can_lock(l) == l = 0

\* a thread calls db.create_collection / delete_collection / get_collection
\* and reaches the lock() of the operation.  Nothing reads the operation's
\* kind and name before the lock is held, so they are recorded by Acquire.
Call(t) ==
    /\ pc[t] = "idle"
    /\ ~results[t].some
    /\ pc' = [pc EXCEPT ![t] = "lock"]
    /\ UNCHANGED <<par, poisoned, collections, store, lock, op, local,
                   results, history, seqReg, seqRet>>

\* unwrap_or_else(|e| e.into_inner()): the guard is taken out of the error
lock_into_inner(p) == "guard"

\* lock().unwrap(): LockResult is Err(PoisonError) when the Mutex is poisoned
\* and unwrap() panics on it; otherwise it is the guard
lock_unwrap(p) == IF p THEN "panic" ELSE "guard"

\* self.collections.lock().unwrap() of operation `kind` on `name`.  On a
\* poisoned Mutex the guard inside the error is dropped while the panic
\* unwinds: the lock is free again and the registry was not touched.
Acquire(t, kind, name) ==
    /\ pc[t] = "lock"
    /\ can_lock(lock)
    /\ IF lock_unwrap(poisoned) = "panic"
       THEN /\ pc' = [pc EXCEPT ![t] = "panicked"]
            /\ UNCHANGED <<lock, op, seqReg, seqRet>>
       ELSE /\ lock' = t
            /\ pc' = [pc EXCEPT ![t] = "cs"]
            /\ op' = [op EXCEPT ![t] = [kind |-> kind, name |-> name]]
            /\ seqReg' = SeqApply(seqReg, op'[t])
            /\ seqRet' = [seqRet EXCEPT ![t] = SeqReturn(seqReg, op'[t])]
    /\ UNCHANGED <<par, poisoned, collections, store, local, results,
                   history>>

\* a panic of the thread that holds the guard (in the map operation or
\* before the return): the guard is dropped while the panic unwinds, which
\* frees the lock and poisons the Mutex; the thread is gone
PanicInCs(t) ==
    /\ pc[t] \in {"cs", "unlock"}
    /\ lock = t
    /\ poisoned' = TRUE
    /\ lock' = 0
    /\ pc' = [pc EXCEPT ![t] = "panicked"]
    /\ UNCHANGED <<par, collections, store, op, local, results, history,
                   seqReg, seqRet>>

\* collections.insert(name.to_string(), Collection::new(name))
create_collection(t) ==
    /\ pc[t] = "cs"
    /\ op[t].kind = "create"
    /\ LET name == op[t].name
           c == Collection_new(name)
       IN  /\ collections' = MapInsert(collections, name,
                                [name |-> c.name, documents |-> DbLoc(name)])
           /\ store' = [store EXCEPT ![DbLoc(name)] = c.documents]
    /\ pc' = [pc EXCEPT ![t] = "unlock"]
    /\ UNCHANGED <<par, poisoned, lock, op, local, results, history, seqReg,
                   seqRet>>

\* collections.clear() in place of collections.remove(name)
delete_collection_clear(t) ==
    /\ pc[t] = "cs"
    /\ op[t].kind = "delete"
    /\ collections' = EmptyMap
    /\ store' = [l \in Locs |->
                    IF \E n \in Names : l = DbLoc(n) THEN EmptyMap ELSE store[l]]
    /\ pc' = [pc EXCEPT ![t] = "unlock"]
    /\ UNCHANGED <<par, poisoned, lock, op, local, results, history, seqReg,
                   seqRet>>

\* collections.remove(name)
delete_collection(t) ==
    /\ pc[t] = "cs"
    /\ op[t].kind = "delete"
    /\ LET name == op[t].name
       IN  /\ collections' = MapRemove(collections, name)
           /\ store' = [store EXCEPT ![DbLoc(name)] = EmptyMap]
    /\ pc' = [pc EXCEPT ![t] = "unlock"]
    /\ UNCHANGED <<par, poisoned, lock, op, local, results, history, seqReg,
                   seqRet>>

\* collections.remove(name) in place of collections.get(name).cloned(): the
\* stored Collection is moved out of the registry
get_collection_take(t) ==
    /\ pc[t] = "cs"
    /\ op[t].kind = "get"
    /\ LET name == op[t].name
       IN  IF name \in DOMAIN collections
           THEN /\ local' = [local EXCEPT ![t] =
                                Some([name |-> collections[name].name,
                                      documents |-> OwnLoc(t)])]
                /\ store' = [store EXCEPT ![OwnLoc(t)] = store[DbLoc(name)],
                                          ![DbLoc(name)] = EmptyMap]
                /\ collections' = MapRemove(collections, name)
           ELSE /\ local' = [local EXCEPT ![t] = None]
                /\ store' = [store EXCEPT ![OwnLoc(t)] = EmptyMap]
                /\ collections' = collections
    /\ history' = [history EXCEPT ![t] = [id \in Ids |-> "never"]]
    /\ pc' = [pc EXCEPT ![t] = "unlock"]
    /\ UNCHANGED <<par, poisoned, lock, op, results, seqReg, seqRet>>

\* collections.get(name).cloned(), bound by the caller
get_collection(t) ==
    /\ pc[t] = "cs"
    /\ op[t].kind = "get"
    /\ LET name == op[t].name
       IN  IF name \in DOMAIN collections
           THEN LET r == cloned(collections[name], OwnLoc(t))
                IN  /\ local' = [local EXCEPT ![t] = Some(r.handle)]
                    /\ store' = [store EXCEPT ![r.handle.documents] =
                                    r.contents]
           ELSE /\ local' = [local EXCEPT ![t] = None]
                /\ store' = [store EXCEPT ![OwnLoc(t)] = EmptyMap]
    /\ history' = [history EXCEPT ![t] = [id \in Ids |-> "never"]]
    /\ pc' = [pc EXCEPT ![t] = "unlock"]
    /\ UNCHANGED <<par, poisoned, collections, lock, op, results, seqReg,
                   seqRet>>

\* the operation returns without dropping the guard (mem::forget(collections))
Release_leak(t) ==
    /\ pc[t] = "unlock"
    /\ lock' = lock
    /\ pc' = [pc EXCEPT ![t] = "idle"]
    /\ op' = [op EXCEPT ![t] = NoOp]
    /\ seqRet' = [seqRet EXCEPT ![t] = None]
    /\ UNCHANGED <<par, poisoned, collections, store, local, results,
                   history, seqReg>>

\* the MutexGuard is dropped when the operation returns
Release(t) ==
    /\ pc[t] = "unlock"
    /\ lock' = 0
    /\ pc' = [pc EXCEPT ![t] = "idle"]
    /\ op' = [op EXCEPT ![t] = NoOp]
    /\ seqRet' = [seqRet EXCEPT ![t] = None]
    /\ UNCHANGED <<par, poisoned, collections, store, local, results,
                   history, seqReg>>

(* --------------------------- specifications --------------------------- *)
\* inputs of the concurrent specification
DbIds == {"doc1"}
DbEmbeddings == {<<Fin(1), Fin(0)>>}
DbQueries == {<<Fin(1), Fin(1)>>}
OpKinds == {"create", "delete", "get"}

\* Database::new(), no thread has called anything yet
Init ==
    /\ collections = EmptyMap
    /\ store = [l \in Locs |-> EmptyMap]
    /\ lock = 0
    /\ pc = [t \in Threads |-> "idle"]
    /\ op = [t \in Threads |-> NoOp]
    /\ local = [t \in Threads |-> None]
    /\ results = [t \in Threads |-> None]
    /\ history = [t \in Threads |-> [id \in Ids |-> "never"]]
    /\ seqReg = EmptyMap
    /\ seqRet = [t \in Threads |-> None]
    /\ poisoned = FALSE
    /\ par = [t \in Threads |-> None]

Next ==
    \E t \in Threads :
        \/ Call(t)
        \/ \E kind \in OpKinds, name \in Names : Acquire(t, kind, name)
        \/ create_collection(t)
        \/ delete_collection(t)
        \/ get_collection(t)
        \/ Release(t)
        \/ \E id \in DbIds, e \in DbEmbeddings : AddDocument(t, id, e)
        \/ \E id \in DbIds : RemoveDocument(t, id)
        \/ \E q \in DbQueries : GetSimilar(t, q, 1)
        \/ ConsumeResults(t)

Spec == Init /\ [][Next]_vars

\* lock() of a thread, whatever operation it is in
AcquireAny(t) == \E kind \in OpKinds, name \in Names : Acquire(t, kind, name)

\* Fair scheduling of the threads.  A thread whose step stays possible takes
\* it: the body under the lock, the return that drops the guard, and lock()
\* while the lock stays free.  std::sync::Mutex promises no order among the
\* waiters, so nothing stronger is stated for lock(): a waiter that finds
\* the lock taken again waits again.  A thread need not call anything.
Fairness ==
    \A t \in Threads :
        /\ WF_vars(AcquireAny(t))
        /\ WF_vars(create_collection(t) \/ delete_collection(t)
                     \/ get_collection(t))
        /\ WF_vars(Release(t))

\* the concurrent program where one client thread fills its snapshot
NextLive ==
    \E t \in Threads :
        \/ Call(t)
        \/ AcquireAny(t)
        \/ create_collection(t)
        \/ delete_collection(t)
        \/ get_collection(t)
        \/ Release(t)
        \/ \E id \in DbIds, e \in DbEmbeddings : t = 1 /\ AddDocument(t, id, e)
        \/ \E q \in DbQueries : GetSimilar(t, q, 1)
        \/ ConsumeResults(t)

SpecLive == Init /\ [][NextLive]_vars /\ Fairness

\* the concurrent program where an operation may panic under the lock
NextPoison ==
    \/ NextLive
    \/ \E t \in Threads : PanicInCs(t)

SpecPoison == Init /\ [][NextPoison]_vars

\* inputs of the similarity specification: every embedding of at most MaxDim
\* components, each zero, positive, negative or infinite
Components == {Fin(0), Fin(1), Fin(-2), PInf}
Vectors == UNION {[1..n -> Components] : n \in 0..MaxDim}
OtherVectors == {<<>>, <<Fin(0), Fin(0)>>, <<Fin(1)>>}

\* inputs of the single-collection specification
CollEmbeddings ==
    {<<Fin(1), Fin(0)>>, <<Fin(1), Fin(1)>>, <<Fin(0), Fin(0)>>,
     <<PInf, Fin(0)>>, <<Fin(-1)>>}
CollQueries == {<<Fin(1), Fin(0)>>, <<Fin(1), Fin(1)>>}

\* main after db.create_collection("test") and db.get_collection("test"):
\* thread 1 holds the copy of the empty collection registered as "test"
InitColl ==
    /\ collections = MapInsert(EmptyMap, "test",
                         [name |-> "test", documents |-> DbLoc("test")])
    /\ store = [l \in Locs |-> EmptyMap]
    /\ lock = 0
    /\ pc = [t \in Threads |-> "idle"]
    /\ op = [t \in Threads |-> NoOp]
    /\ local = [t \in Threads |->
                   IF t = 1 THEN Some([name |-> "test", documents |-> OwnLoc(1)])
                   ELSE None]
    /\ results = [t \in Threads |-> None]
    /\ history = [t \in Threads |-> [id \in Ids |-> "never"]]
    /\ seqReg = MapInsert(EmptyMap, "test",
                         [name |-> "test", documents |-> EmptyMap])
    /\ seqRet = [t \in Threads |-> None]
    /\ poisoned = FALSE
    /\ par = [t \in Threads |-> None]

NextColl ==
    \/ \E id \in Ids, e \in CollEmbeddings : AddDocument(1, id, e)
    \/ \E id \in Ids : RemoveDocument(1, id)
    \/ \E q \in CollQueries, top_n \in TopNs : GetSimilar(1, q, top_n)
    \/ ConsumeResults(1)

SpecColl == InitColl /\ [][NextColl]_vars

(* ------------------------------- claims ------------------------------- *)
\* the similarity of the documents of one collection to a query: the thread
\* of main stores one document with any embedding and one more with a few,
\* and queries with any embedding for all the documents
NextSim ==
    \/ \E e \in Vectors : AddDocument(1, "doc1", e)
    \/ \E e \in OtherVectors : AddDocument(1, "doc3", e)
    \/ \E q \in Vectors : GetSimilar(1, q, MaxTopN)
    \/ ConsumeResults(1)

SpecSim == InitColl /\ [][NextSim]_vars

\* inputs of main.  cosine_similarity does not change when a vector is
\* multiplied by a positive number, so the documents are main's times 10 and
\* the query is main's times 20, which makes every component an integer.
\* main calls the second document "caroote"; "doc2" is the same document
\* under another id.
MainIds == {"doc1", "caroote", "doc2", "doc3"}
MainEmbedding(id) ==
    IF id = "doc1" THEN <<Fin(1), Fin(2), Fin(3), Fin(4)>>
    ELSE IF id = "doc3" THEN <<Fin(9), Fin(8), Fin(7), Fin(6)>>
    ELSE <<Fin(2), Fin(3), Fin(4), Fin(5)>>
MainQuery == <<Fin(4), Fin(5), Fin(6), Fin(7)>>

\* main: the thread creates "test", gets it, adds the documents, queries
\* and uses the result, each step as often and in the order it likes
NextMain ==
    \/ Call(1)
    \/ \E kind \in {"create", "get"} : Acquire(1, kind, "test")
    \/ create_collection(1)
    \/ get_collection(1)
    \/ Release(1)
    \/ \E id \in MainIds : AddDocument(1, id, MainEmbedding(id))
    \/ \E top_n \in TopNs : GetSimilar(1, MainQuery, top_n)
    \/ ConsumeResults(1)

SpecMain == Init /\ [][NextMain]_vars

\* inputs of the worker-by-worker specification
ParEmbeddings == {<<Fin(1), Fin(0)>>, <<Fin(1), Fin(1)>>}

\* the query of thread 1 on its collection, worker by worker; the
\* collection is borrowed by the query until it returns
NextPar ==
    \/ \E id \in Ids, e \in ParEmbeddings :
           ~ParRunning(1) /\ AddDocument(1, id, e)
    \/ \E id \in Ids : ~ParRunning(1) /\ RemoveDocument(1, id)
    \/ \E q \in DbQueries : ParStart(1, q, 2)
    \/ \E w \in Workers, i \in 1..Cardinality(Ids) : ParTake(1, w, i)
    \/ \E w \in Workers : ParEmit(1, w)
    \/ ParFinish(1)
    \/ ConsumeResults(1)

SpecPar == InitColl /\ [][NextPar]_vars

AllEmbeddings == DbEmbeddings \cup CollEmbeddings

DocumentsNext(t) == store'[local'[t].val.documents]

\* x >= y and x <= y on f32: false when either side is NaN
ScoreGe(x, y) == partial_cmp(x, y) \in {"Greater", "Equal"}
ScoreLe(x, y) == partial_cmp(x, y) \in {"Less", "Equal"}

\* C1: add_document and remove_document on a Collection returned by
\* get_collection leave the Database's registry unchanged, and a
\* get_collection returns the collection as the registry stores it, whatever
\* was done to earlier copies.
C1_CallerMutationInvisible ==
    [][\A t \in Threads :
        /\ ( (\E id \in Ids, e \in AllEmbeddings : AddDocument(t, id, e))
             \/ (\E id \in Ids : RemoveDocument(t, id)) )
           => RegViewNext = RegView
        /\ get_collection(t)
           => /\ RegViewNext = RegView
              /\ SnapshotNext(t) =
                     IF op[t].name \in DOMAIN RegView
                     THEN Some(RegView[op[t].name]) ELSE None
      ]_vars

\* C1 witness: a thread holds a copy it has added a document to, the registry
\* still stores the collection empty, and another thread has just got it empty
C1_Witness ==
    \E t, u \in Threads :
        /\ t # u
        /\ local[t].some
        /\ Documents(t) # EmptyMap
        /\ local[t].val.name \in DOMAIN collections
        /\ RegView[local[t].val.name].documents = EmptyMap
        /\ pc[u] = "unlock"
        /\ op[u] = [kind |-> "get", name |-> local[t].val.name]
        /\ Snapshot(u) = Some([name |-> local[t].val.name,
                                documents |-> EmptyMap])

\* C2: a Collection returned by get_collection does not change when any
\* thread's create_collection or delete_collection acts on the registry.
C2_SnapshotUnchangedByDatabase ==
    [][\A t \in Threads :
        (\E u \in Threads : create_collection(u) \/ delete_collection(u))
        => SnapshotNext(t) = Snapshot(t)
      ]_vars

\* C2 witness: a thread holds a copy with a document in it of a collection
\* that another thread has deleted since
C2_Witness ==
    \E t, u \in Threads :
        /\ t # u
        /\ local[t].some
        /\ Documents(t) # EmptyMap
        /\ local[t].val.name \notin DOMAIN collections
        /\ pc[u] = "unlock"
        /\ op[u] = [kind |-> "delete", name |-> local[t].val.name]

\* C3: at most one thread is between lock() and the release of the guard,
\* and the registry and the value get_collection returns are those of the
\* operations applied one at a time in the order the lock was acquired.
C3_Serialized ==
    /\ Cardinality({t \in Threads : pc[t] \in {"cs", "unlock"}}) <= 1
    /\ \A t \in Threads : pc[t] \in {"cs", "unlock"} <=> lock = t
    /\ lock = 0 => RegView = seqReg
    /\ \A t \in Threads :
          pc[t] = "unlock"
          => /\ RegView = seqReg
             /\ op[t].kind = "get" => seqRet[t] = Some(Snapshot(t))
    /\ \A n \in DOMAIN RegView :
          RegView[n] = [name |-> n, documents |-> EmptyMap]

\* C3 witness: a thread has finished a create under the lock while another
\* thread waits at lock(), with both names registered
C3_Witness ==
    \E t, u \in Threads :
        /\ pc[t] = "unlock"
        /\ op[t].kind = "create"
        /\ pc[u] = "lock"
        /\ DOMAIN collections = Names

\* C10: create_collection leaves the registry mapping the name to an empty
\* Collection of that name and every other entry as it was.
C10_CreateOverwrites ==
    [][\A t \in Threads :
        create_collection(t)
        => LET n == op[t].name
           IN  /\ DOMAIN RegViewNext = DOMAIN RegView \cup {n}
               /\ RegViewNext[n] = [name |-> n, documents |-> EmptyMap]
               /\ \A m \in DOMAIN RegView \ {n} :
                     RegViewNext[m] = RegView[m]
      ]_vars

\* C10 witness: a create of a name that was registered, next to another name
C10_Witness ==
    \E t \in Threads :
        /\ pc[t] = "unlock"
        /\ op[t].kind = "create"
        /\ DOMAIN collections = Names
        /\ \E u \in Threads : local[u].some /\ local[u].val.name = op[t].name

\* C4: the sequence get_similar_documents returns is sorted by score
\* non-increasing: each entry's score is >= the score of the entry after it.
C4_SortedNonIncreasing ==
    \A t \in Threads :
        results[t].some
        => \A i \in 1..(Len(results[t].val.out) - 1) :
              ScoreGe(results[t].val.out[i][2], results[t].val.out[i + 1][2])

\* C5: get_similar_documents(query, top_n) returns min(top_n, document_count)
\* entries.
C5_ResultLength ==
    \A t \in Threads :
        results[t].some
        => Len(results[t].val.out) =
              Min(results[t].val.top_n, Cardinality(DOMAIN Documents(t)))

\* C5 witness: a query that cut the result to top_n, 0 < top_n < document_count
C5_Witness ==
    /\ results[1].some
    /\ results[1].val.top_n > 0
    /\ results[1].val.top_n < Cardinality(DOMAIN Documents(1))
    /\ Len(results[1].val.out) = results[1].val.top_n

\* C6: get_similar_documents returns the N highest-scoring documents: every
\* entry is (id, similarity(embedding of id, query)) for a document of the
\* collection, the ids are pairwise distinct, and every document that is not
\* returned has a score <= the score of every returned entry.
C6_TopScoring ==
    \A t \in Threads :
        results[t].some
        => LET out == results[t].val.out
               q == results[t].val.query
               docs == Documents(t)
               score(id) == cosine_similarity(docs[id].embedding, q)
               returned == {out[i][1] : i \in 1..Len(out)}
           IN  /\ \A i \in 1..Len(out) :
                     /\ out[i][1] \in DOMAIN docs
                     /\ out[i][2] = score(out[i][1])
               /\ \A i, j \in 1..Len(out) : out[i][1] = out[j][1] => i = j
               /\ \A id \in DOMAIN docs \ returned :
                     \A i \in 1..Len(out) : ScoreLe(score(id), out[i][2])

\* C7: add_document(id, e) leaves exactly one document under id, with
\* embedding e; the count grows by one only when id was absent; the documents
\* under other ids are unchanged, and no operation on another id changes the
\* document under id.
C7_AddInsertsOrOverwrites ==
    [][\A t \in Threads : \A id \in Ids :
        /\ \A e \in AllEmbeddings :
              AddDocument(t, id, e)
              => /\ DOMAIN DocumentsNext(t) = DOMAIN Documents(t) \cup {id}
                 /\ DocumentsNext(t)[id] = [id |-> id, embedding |-> e]
                 /\ Cardinality(DOMAIN DocumentsNext(t)) =
                        Cardinality(DOMAIN Documents(t))
                        + (IF id \in DOMAIN Documents(t) THEN 0 ELSE 1)
        /\ ( \E j \in Ids \ {id} :
                \/ RemoveDocument(t, j)
                \/ \E e \in AllEmbeddings : AddDocument(t, j, e) )
           => /\ id \in DOMAIN DocumentsNext(t) <=> id \in DOMAIN Documents(t)
              /\ id \in DOMAIN Documents(t)
                 => DocumentsNext(t)[id] = Documents(t)[id]
      ]_vars

\* C7 witness: the collection holds three documents and the last add_document
\* of one of them replaced a document that was there
C7_Witness ==
    /\ local[1].some
    /\ DOMAIN Documents(1) = Ids
    /\ \E id \in Ids : history[1][id] = "overwritten"
    /\ \E id \in Ids : history[1][id] = "added"

\* C8: after remove_document(id) and until a later add_document(id, _) on the
\* same collection, no result of get_similar_documents contains id.
C8_RemovedNeverReturned ==
    \A t \in Threads :
        results[t].some
        => \A i \in 1..Len(results[t].val.out) :
              history[t][results[t].val.out[i][1]] # "removed"

\* C8 witness: a query that returned two documents of a collection from
\* which a document has been removed
C8_Witness ==
    /\ results[1].some
    /\ \E id \in Ids : history[1][id] = "removed"
    /\ Len(results[1].val.out) = 2

\* C9: remove_document(id) changes nothing when the collection holds no
\* document under id; otherwise it removes exactly that document; the name
\* and the other documents are unchanged either way.
C9_RemoveExact ==
    [][\A t \in Threads : \A id \in Ids :
        RemoveDocument(t, id)
        => /\ local'[t].val.name = local[t].val.name
           /\ DOMAIN DocumentsNext(t) = DOMAIN Documents(t) \ {id}
           /\ \A j \in DOMAIN DocumentsNext(t) :
                 DocumentsNext(t)[j] = Documents(t)[j]
           /\ id \notin DOMAIN Documents(t) => SnapshotNext(t) = Snapshot(t)
      ]_vars

\* C9 witness: a document has been removed and the two others are still there
C9_Witness ==
    /\ local[1].some
    /\ Cardinality(DOMAIN Documents(1)) = 2
    /\ \E id \in Ids : history[1][id] = "removed"

\* C11: get_collection(name) returns None exactly when name is not
\* registered, that is when the most recent create_collection or
\* delete_collection of name (in the order the lock was taken; seqReg holds
\* the names whose most recent one was a create) was not a create; and
\* get_collection never changes the registry.
C11_GetAbsentIffUnregistered ==
    [][\A t \in Threads :
        get_collection(t)
        => /\ SnapshotNext(t).some <=> op[t].name \in DOMAIN collections
           /\ SnapshotNext(t).some <=> op[t].name \in DOMAIN seqReg
           /\ collections' = collections
           /\ RegViewNext = RegView
      ]_vars

\* C11 witness: a get_collection has returned None for a name that was
\* registered before (another thread still holds a copy of it) and deleted
C11_Witness ==
    \E t, u \in Threads :
        /\ t # u
        /\ pc[t] = "unlock"
        /\ op[t].kind = "get"
        /\ ~local[t].some
        /\ op[t].name \notin DOMAIN collections
        /\ local[u].some
        /\ local[u].val.name = op[t].name

\* C12: delete_collection(name) removes the entry under name if there is one
\* and changes nothing otherwise; every entry under another name is
\* unchanged, and the operation returns normally.
C12_DeleteExact ==
    [][\A t \in Threads :
        delete_collection(t)
        => /\ DOMAIN RegViewNext = DOMAIN RegView \ {op[t].name}
           /\ \A m \in DOMAIN RegViewNext : RegViewNext[m] = RegView[m]
           /\ op[t].name \notin DOMAIN RegView => RegViewNext = RegView
           /\ pc'[t] = "unlock"
      ]_vars

\* C12 witness: a delete_collection has run and the other name is still
\* registered
C12_Witness ==
    \E t \in Threads :
        /\ pc[t] = "unlock"
        /\ op[t].kind = "delete"
        /\ op[t].name \notin DOMAIN collections
        /\ DOMAIN collections # {}

\* C13 as stated: under fair scheduling every Database operation that has
\* been invoked (its thread is at lock()) eventually completes.
C13_EveryOperationCompletes ==
    \A t \in Threads : (pc[t] = "lock") ~> (pc[t] = "idle")

\* C13, amended: a Database operation holds the lock from lock() to its
\* return and not after it; its map operation runs under the lock; no thread
\* holds the lock while it runs get_similar_documents; no deadlock is
\* reachable (while a thread is inside an operation, a step of some operation
\* is possible); and under fair scheduling every operation that has acquired
\* the lock completes, and while a thread waits at lock() some operation
\* acquires the lock.
C13_LockDisciplineAndProgress ==
    /\ [](\A t \in Threads : pc[t] \in {"idle", "lock"} => lock # t)
    /\ [][\A t \in Threads :
            /\ ( create_collection(t) \/ delete_collection(t)
                 \/ get_collection(t) )
               => lock = t /\ lock' = t
            /\ Release(t) => lock = t /\ lock' = 0
            /\ (\E q \in DbQueries \cup CollQueries, n \in TopNs :
                    GetSimilar(t, q, n))
               => lock # t /\ lock' = lock
         ]_vars
    /\ [](\A t \in Threads :
            pc[t] # "idle"
            => \E u \in Threads :
                   ENABLED ( AcquireAny(u) \/ create_collection(u)
                             \/ delete_collection(u) \/ get_collection(u)
                             \/ Release(u) ))
    /\ \A t \in Threads : (pc[t] \in {"cs", "unlock"}) ~> (pc[t] = "idle")
    /\ (\E t \in Threads : pc[t] = "lock") ~> (\E t \in Threads : pc[t] = "cs")

\* C13 witness: a thread holds the result of a query while another thread is
\* inside a Database operation, holding the lock
C13_Witness ==
    \E t, u \in Threads :
        /\ results[t].some
        /\ Len(results[t].val.out) = 1
        /\ pc[u] = "cs"
        /\ lock = u

\* C14: poisoning is fatal and never absorbed.  Once an operation has
\* panicked under the lock the Mutex stays poisoned, no thread is inside an
\* operation any more, and every lock() that returns afterwards panics in its
\* caller: the operation neither reads the registry (the caller's collection,
\* and its operation record, are as before) nor modifies it.
C14_PoisonIsFatal ==
    /\ [](poisoned => \A t \in Threads : pc[t] \notin {"cs", "unlock"} /\ lock # t)
    /\ [][ poisoned
           => /\ poisoned'
              /\ RegViewNext = RegView
              /\ collections' = collections
              /\ \A t \in Threads :
                    pc[t] = "lock" /\ pc'[t] # "lock"
                    => /\ pc'[t] = "panicked"
                       /\ local'[t] = local[t]
                       /\ op'[t] = op[t]
                       /\ store' = store ]_vars
    /\ [][\A t \in Threads : pc[t] = "panicked" => pc'[t] = "panicked"]_vars

\* C14 witness: a thread panicked under the lock while the registry held a
\* collection, and another thread's later call panicked at lock()
C14_Witness ==
    /\ poisoned
    /\ DOMAIN collections # {}
    /\ \E t, u \in Threads :
          /\ t # u
          /\ pc[t] = "panicked" /\ op[t].kind # "none"
          /\ pc[u] = "panicked" /\ op[u].kind = "none"

\* a vector of zero magnitude: no component, or every component 0.0
ZeroMagnitude(vec) == \A i \in 1..Len(vec) : vec[i] = Fin(0)

\* the score of document `id` in the result thread 1 holds
ScoreOf(id) ==
    LET out == results[1].val.out
        i == CHOOSE j \in 1..Len(out) : out[j][1] = id
    IN  out[i][2]

\* C15: the similarity is exactly 0 (and not the NaN or infinity a division
\* by a zero product would give) whenever the query or the document has zero
\* magnitude, empty and all-zero vectors included: a zero-magnitude document
\* has score 0 for every query, and every document has score 0 for a
\* zero-magnitude query.
C15_ZeroMagnitudeScoresZero ==
    results[1].some
    => /\ Len(results[1].val.out) = Cardinality(DOMAIN Documents(1))
       /\ \A id \in DOMAIN Documents(1) :
             ZeroMagnitude(Documents(1)[id].embedding)
               \/ ZeroMagnitude(results[1].val.query)
             => ScoreOf(id) = ScoreZero

\* C15 witness: a query of non-zero magnitude over an all-zero document,
\* which scores 0, and a document that scores 1
C15_Witness ==
    /\ results[1].some
    /\ ~ZeroMagnitude(results[1].val.query)
    /\ DOMAIN Documents(1) = {"doc1", "doc3"}
    /\ Documents(1)["doc1"].embedding = <<Fin(0), Fin(0)>>
    /\ ScoreOf("doc1") = ScoreZero
    /\ ScoreOf("doc3") = [k |-> "fin", num |-> 1, den |-> 1]

\* a score in [-1, 1]: finite, with num^2 <= den for num / sqrt(den)
InRange(s) == s.k = "fin" /\ s.num * s.num <= s.den

\* C16: for every document and query of non-zero magnitude, of equal or of
\* different lengths, the score lies in [-1, 1]; it is exactly 0 when the
\* document or the query has zero magnitude.
C16_ScoreInRange ==
    results[1].some
    => \A id \in DOMAIN Documents(1) :
          IF ZeroMagnitude(Documents(1)[id].embedding)
               \/ ZeroMagnitude(results[1].val.query)
          THEN ScoreOf(id) = ScoreZero
          ELSE InRange(ScoreOf(id))

\* C17: main's scenario.  For the collection got from the database that
\* holds doc1, the second document (doc2; "caroote" in main) and doc3 with
\* main's embeddings, the query of main with top_n = 2 returns exactly two
\* entries, the second document first and doc1 second, with
\* score(second) > score(doc1) > score(doc3), and doc3 is not returned.
C17_MainScenario ==
    \A second \in {"caroote", "doc2"} :
        /\ results[1].some
        /\ results[1].val.top_n = 2
        /\ DOMAIN Documents(1) = {"doc1", second, "doc3"}
        => LET out == results[1].val.out
               score3 == cosine_similarity(MainEmbedding("doc3"), MainQuery)
           IN  /\ Len(out) = 2
               /\ out[1][1] = second
               /\ out[2][1] = "doc1"
               /\ partial_cmp(out[1][2], out[2][2]) = "Greater"
               /\ partial_cmp(out[2][2], score3) = "Greater"
               /\ local[1].val.name = "test"

\* C17 witness: the query was run with top_n = 2 on the collection holding
\* doc1, doc2 and doc3, copied from a registry that still holds "test" empty
C17_Witness ==
    /\ results[1].some
    /\ results[1].val.top_n = 2
    /\ DOMAIN Documents(1) = {"doc1", "doc2", "doc3"}
    /\ "test" \in DOMAIN RegView
    /\ RegView["test"].documents = EmptyMap

\* the scores a query can meet: those held in a result
ScoresSeen ==
    UNION {{results[t].val.out[i][2] : i \in 1..Len(results[t].val.out)} :
              t \in {u \in Threads : results[u].some}}

\* x is not after y under the closure of sort_by
NotAfter(x, y) == compare(<<"x", x>>, <<"y", y>>) \in {"Less", "Equal"}

\* C18: over the scores of a result, NaN included, the closure of sort_by is
\* a total order with NaN equal to everything: every two scores are compared
\* without failure, the comparison of x with y is the reverse of that of y
\* with x, and it is transitive (x not after y and y not after z imply x not
\* after z).
C18_ComparatorTotalOrder ==
    \A x, y, z \in ScoresSeen :
        /\ compare(<<"x", x>>, <<"y", y>>) \in {"Less", "Equal", "Greater"}
        /\ (compare(<<"x", x>>, <<"y", y>>) = "Less")
              <=> (compare(<<"y", y>>, <<"x", x>>) = "Greater")
        /\ (compare(<<"x", x>>, <<"y", y>>) = "Equal")
              <=> (compare(<<"y", y>>, <<"x", x>>) = "Equal")
        /\ NotAfter(x, y) /\ NotAfter(y, z) => NotAfter(x, z)

\* the items of the query of thread t: scored, in a worker's hand
Filled(t) ==
    {i \in 1..Len(par[t].val.slots) : par[t].val.slots[i].some}
InHand(t) == {par[t].val.busy[w] : w \in Workers} \ {0}

\* the output the item i of the query of thread t must have
Expected(t, i) ==
    LET doc == Documents(t)[par[t].val.order[i]]
    IN  <<doc.id, cosine_similarity(doc.embedding, par[t].val.query)>>

\* C19: the workers of the parallel scoring share no mutable state.  While
\* the query runs, for every assignment of items to workers and every
\* interleaving, each item is in exactly one of: not taken, in the hand of
\* exactly one worker, scored; a scored item holds its own document's id and
\* the similarity computed sequentially.  When the query returns, the
\* collected list has exactly one entry per stored document, the result is
\* that of the sequential computation, and no step of the query modifies
\* the collection.
C19_ParallelScoringIndependent ==
    /\ [](\A t \in Threads :
            ParRunning(t)
            => LET p == par[t].val
                   n == Len(p.order)
               IN  /\ n = Cardinality(DOMAIN Documents(t))
                   /\ p.todo \cup InHand(t) \cup Filled(t) = 1..n
                   /\ p.todo \cap InHand(t) = {}
                   /\ p.todo \cap Filled(t) = {}
                   /\ InHand(t) \cap Filled(t) = {}
                   /\ \A w1, w2 \in Workers :
                         p.busy[w1] # 0 /\ p.busy[w1] = p.busy[w2] => w1 = w2
                   /\ \A i \in Filled(t) : p.slots[i].val = Expected(t, i))
    /\ [][\A t \in Threads :
            /\ ParFinish(t)
               => LET p == par[t].val
                      list == collect(p.slots)
                  IN  /\ Len(list) = Cardinality(DOMAIN Documents(t))
                      /\ \A id \in DOMAIN Documents(t) :
                            Cardinality({i \in 1..Len(list) : list[i][1] = id}) = 1
                      /\ list = similarities(Documents(t), p.query, p.order)
                      /\ results'[t].val.out =
                            get_similar_documents(Documents(t), p.query,
                                                  p.top_n, p.order)
            /\ ( ParFinish(t)
                 \/ (\E q \in DbQueries, n \in TopNs : ParStart(t, q, n))
                 \/ (\E w \in Workers : ParEmit(t, w))
                 \/ (\E w \in Workers, i \in 1..Cardinality(Ids) :
                         ParTake(t, w, i)) )
               => store' = store /\ local' = local
         ]_vars

\* C19 witness: three documents, one scored, and two workers each with an
\* item in hand
C19_Witness ==
    /\ ParRunning(1)
    /\ Cardinality(DOMAIN Documents(1)) = 3
    /\ Cardinality(Filled(1)) = 1
    /\ Cardinality(InHand(1)) = 2

\* C20: every Collection stored in the registry has no document and has
\* its key as name, whatever the threads did to the collections they got;
\* and a get_collection returns an empty collection under the name asked
\* for, or nothing: no document a caller added is visible in a later get.
C20_RegistryCollectionsEmpty ==
    /\ \A n \in DOMAIN RegView :
          RegView[n] = [name |-> n, documents |-> EmptyMap]
    /\ \A t \in Threads :
          pc[t] = "unlock" /\ op[t].kind = "get" /\ local[t].some
          => Snapshot(t).val = [name |-> op[t].name, documents |-> EmptyMap]

\* C20 witness: a thread has just got a registered collection, empty, while
\* another thread holds a copy of the same collection with a document in it
C20_Witness ==
    \E t, u \in Threads :
        /\ t # u
        /\ pc[t] = "unlock" /\ op[t].kind = "get" /\ local[t].some
        /\ local[u].some
        /\ local[u].val.name = local[t].val.name
        /\ Documents(u) # EmptyMap
        /\ Documents(t) = EmptyMap
        /\ local[t].val.name \in DOMAIN collections

====
